---- MODULE Spec2Model ----
(***************************************************************************)
(* Model of packages/output/src/common/output-channel.ts: the              *)
(* OutputChannel (a FIFO queue of edit tasks around one text model) and    *)
(* the OutputChannelManager (registry, visibility and selection).          *)
(*                                                                         *)
(* Spec         one OutputChannel: append / appendLine / clear, the       *)
(*              p-queue that serialises them, the text model they edit.   *)
(* SpecManager  the manager: getChannel / deleteChannel / show / hide.    *)
(***************************************************************************)
EXTENDS Integers, Sequences, FiniteSets, TLC

\* ------------------------------------------------------------------ bounds
\* Number of append / appendLine / clear calls made on the channel.
MaxCalls == 3
\* Largest value of the preference output.maxChannelHistory (values from 1).
MaxHistory == 2
\* Number of OutputChannel objects the manager creates.
MaxChannels == 3

\* --------------------------------------------------------------- constants
\* OutputChannelSeverity
Error == 1
Warning == 2
Info == 3
Severities == {Error, Warning, Info}

\* new PQueue({ autoStart: true, concurrency: 1 })
ConcurrencyTwo == 1 + 1
Concurrency == 1

\* textModel.getEOL()
LF == "\n"
\* strings.firstNonWhitespaceIndex skips spaces and tabs
Whitespace == {" ", "\t"}

\* The strings handed to append / appendLine: the empty string (the
\* maxLineNumber setter appends '') and a text of two lines whose second
\* line begins with a blank.
Contents == { <<>>, <<"a", LF, " ", "b">> }

VARIABLES
    textModel,      \* monaco ITextModel: [value, decorations, lastDecorationId]
    decorationIds,  \* OutputChannel.decorationIds
    maxLineNumber,  \* OutputChannel._maxLineNumber
    editorModel,    \* resource.editorModel: TRUE once the Deferred is resolved
    queue,          \* PQueue: the tasks not yet started, in queue order
    pendingCount,   \* PQueue._pendingCount
    running,        \* tasks whose function was called and PQueue._next not yet run
    callCount,      \* number of append / appendLine / clear calls so far
    applied,        \* the call numbers of the tasks applied to the document, in order
    lastRun,        \* the last task's run: what doAppend saw and did
    channels,       \* OutputChannelManager.channels: Map name -> channel
    resources,      \* OutputChannelManager.resources: Map uri -> resource
    selectedChannel,             \* OutputChannelManager._selectedChannel
    toDisposeOnChannelDeletion,  \* Map name -> DisposableCollection
    objects,        \* the OutputChannel objects created so far, by identity
    resourceObjects,\* the OutputResource objects created so far, by identity
    fired,          \* the events the last operation of the manager fired
    lastOp          \* the last operation of the manager and what it saw

channelVars == << textModel, decorationIds, maxLineNumber, editorModel, queue,
                  pendingCount, running, callCount, applied, lastRun >>

managerVars == << channels, resources, selectedChannel, toDisposeOnChannelDeletion,
                  objects, resourceObjects, fired, lastOp >>

vars == << channelVars, managerVars >>

\* ------------------------------------------------------------- text model
Min(S) == CHOOSE x \in S : \A y \in S : x <= y
Max(S) == CHOOSE x \in S : \A y \in S : x >= y

LFPos(v) == { i \in 1..Len(v) : v[i] = LF }

getLineCount(v) == 1 + Cardinality(LFPos(v))

\* Number of characters before the first character of line l.
LineStart(v, l) ==
    IF l = 1 THEN 0
    ELSE CHOOSE i \in LFPos(v) : Cardinality({ j \in LFPos(v) : j <= i }) = l - 1

\* Offset just after the last character of line l (its line break excluded).
LineEnd(v, l) ==
    IF l = getLineCount(v) THEN Len(v)
    ELSE (CHOOSE i \in LFPos(v) : Cardinality({ j \in LFPos(v) : j <= i }) = l) - 1

getLineContent(v, l) == SubSeq(v, LineStart(v, l) + 1, LineEnd(v, l))

getLineMaxColumn(v, l) == LineEnd(v, l) - LineStart(v, l) + 1

\* 0 when the line is empty or holds only whitespace
getLineFirstNonWhitespaceColumn(v, l) ==
    LET c == getLineContent(v, l)
        idx == { i \in 1..Len(c) : c[i] \notin Whitespace }
    IN  IF idx = {} THEN 0 ELSE Min(idx)

\* 0 when the line is empty or holds only whitespace
getLineLastNonWhitespaceColumn(v, l) ==
    LET c == getLineContent(v, l)
        idx == { i \in 1..Len(c) : c[i] \notin Whitespace }
    IN  IF idx = {} THEN 0 ELSE Max(idx) + 1

\* new monaco.Range(...): the constructor orders its two ends
Range(sl, sc, el, ec) ==
    IF sl > el \/ (sl = el /\ sc > ec)
    THEN [startLineNumber |-> el, startColumn |-> ec, endLineNumber |-> sl, endColumn |-> sc]
    ELSE [startLineNumber |-> sl, startColumn |-> sc, endLineNumber |-> el, endColumn |-> ec]

\* TextModel._validatePosition followed by getOffsetAt
getOffsetAt(v, line, col) ==
    IF line < 1 THEN 0
    ELSE IF line > getLineCount(v) THEN Len(v)
    ELSE IF col <= 1 THEN LineStart(v, line)
    ELSE IF col >= getLineMaxColumn(v, line) THEN LineEnd(v, line)
    ELSE LineStart(v, line) + col - 1

\* intervalTree.nodeAcceptEdit with forceMoveMarkers: a marker before the
\* edit stays, one inside the replaced text goes to the end of the inserted
\* text, one at or after the end of the replaced text moves with the text.
MoveMarker(m, start, end, ins) ==
    IF m < start THEN m
    ELSE IF m < end THEN start + ins
    ELSE m + ins - (end - start)

MoveDecoration(d, start, end, ins) ==
    LET s == MoveMarker(d.s, start, end, ins)
        e == MoveMarker(d.e, start, end, ins)
    IN  [d EXCEPT !.s = s, !.e = IF s > e THEN s ELSE e]

\* textModel.applyEdits([{ range, text, forceMoveMarkers: true }])
applyEdits(tm, range, text) ==
    LET v == tm.value
        start == getOffsetAt(v, range.startLineNumber, range.startColumn)
        end == getOffsetAt(v, range.endLineNumber, range.endColumn)
    IN  [tm EXCEPT
            !.value = SubSeq(v, 1, start) \o text \o SubSeq(v, end + 1, Len(v)),
            !.decorations = { MoveDecoration(d, start, end, Len(text)) : d \in tm.decorations }]

\* textModel.deltaDecorations(oldIds, []) : the old decorations are removed
removeDecorations(tm, oldIds) ==
    [tm EXCEPT !.decorations = { d \in tm.decorations : d.id \notin oldIds }]

\* textModel.deltaDecorations([], [{ range, options: { inlineClassName } }])
addDecoration(tm, range, inlineClassName) ==
    LET v == tm.value
        id == tm.lastDecorationId + 1
    IN  [tm EXCEPT
            !.lastDecorationId = id,
            !.decorations = tm.decorations \cup
                {[id |-> id,
                  s |-> getOffsetAt(v, range.startLineNumber, range.startColumn),
                  e |-> getOffsetAt(v, range.endLineNumber, range.endColumn),
                  inlineClassName |-> inlineClassName]}]

\* textModel.getLinesDecorations(startLine, endLine): the decorations that
\* meet the text from the start of startLine to the end of endLine
getLinesDecorations(tm, startLine, endLine) ==
    LET v == tm.value
        lc == getLineCount(v)
        sl == Min({lc, Max({1, startLine})})
        el == Min({lc, Max({1, endLine})})
        from == LineStart(v, sl)
        to == LineEnd(v, el)
    IN  { d \in tm.decorations : d.s <= to /\ d.e >= from }

\* textModel.setValue(''): the buffer is replaced and every decoration dropped
setValue(tm, text) == [tm EXCEPT !.value = text, !.decorations = {}]

\* ---------------------------------------------------------- OutputChannel
\* A variant of appendPosition: the start of the last line.
appendPositionLineStart(v) == [lineNumber |-> getLineCount(v), column |-> 1]

\* The place doAppend inserts at: the end of the last line.
appendPosition(v) ==
    LET lastLine == getLineCount(v)
    IN  [lineNumber |-> lastLine, column |-> getLineMaxColumn(v, lastLine)]

\* A variant of linesToRemove: one line too few.
linesToRemoveOneLess(v, max) == getLineCount(v) - max - 2

\* const linesToRemove = textModel.getLineCount() - this.maxLineNumber - 1
linesToRemove(v, max) == getLineCount(v) - max - 1

\* The range of the edit that removes the oldest lines.
trimRange(v, n) == Range(1, 1, n + 1, getLineFirstNonWhitespaceColumn(v, n + 1))

\* The channel's decorations that ensureMaxChannelHistory deletes.
decorationsToRemove(tm, ids, n) ==
    { d.id : d \in { x \in getLinesDecorations(tm, 1, n) : x.id \in ids } }

\* OutputChannel.ensureMaxChannelHistory
ensureMaxChannelHistory(tm, ids, max) ==
    LET n == linesToRemove(tm.value, max)
    IN  IF n > 0
        THEN LET toRemove == decorationsToRemove(tm, ids, n)
                 tm1 == IF toRemove # {} THEN removeDecorations(tm, toRemove) ELSE tm
             IN  [textModel |-> applyEdits(tm1, trimRange(tm1.value, n), <<>>),
                  decorationIds |-> ids \ toRemove]
        ELSE [textModel |-> tm, decorationIds |-> ids]

\* OutputChannel.doAppend, from the resolved text model on.  The result also
\* records the text model as it is between the insertion and the trimming
\* ("edited"), and whether the decoration step threw: with a last line that
\* is blank and no line before it, getLineLastNonWhitespaceColumn(0) throws
\* and the rest of doAppend (the trimming included) is skipped.
doAppend(tm, ids, max, content, severity, eol) ==
    LET position == appendPosition(tm.value)
        range == Range(position.lineNumber, position.column,
                       position.lineNumber, position.column)
        text == IF eol THEN content \o <<LF>> ELSE content
        tm1 == applyEdits(tm, range, text)
        lc == getLineCount(tm1.value)
        endLineNumber == IF getLineFirstNonWhitespaceColumn(tm1.value, lc) = 0
                         THEN lc - 1 ELSE lc
    IN  IF severity = Info
        THEN LET r == ensureMaxChannelHistory(tm1, ids, max)
             IN  [textModel |-> r.textModel, decorationIds |-> r.decorationIds,
                  threw |-> FALSE, edited |-> tm1, editedIds |-> ids]
        ELSE IF endLineNumber < 1
        THEN [textModel |-> tm1, decorationIds |-> ids,
              threw |-> TRUE, edited |-> tm1, editedIds |-> ids]
        ELSE LET inlineClassName == IF severity = Error THEN "theia-output-error"
                                    ELSE "theia-output-warning"
                 endColumn == getLineLastNonWhitespaceColumn(tm1.value, endLineNumber)
                 tm2 == addDecoration(tm1,
                            Range(range.startLineNumber, range.startColumn,
                                  endLineNumber, endColumn),
                            inlineClassName)
                 ids2 == ids \cup {tm2.lastDecorationId}
                 r == ensureMaxChannelHistory(tm2, ids2, max)
             IN  [textModel |-> r.textModel, decorationIds |-> r.decorationIds,
                  threw |-> FALSE, edited |-> tm2, editedIds |-> ids2]

\* The task clear() queues, from the resolved text model on.
doClear(tm, ids) == setValue(removeDecorations(tm, ids), <<>>)

\* ---------------------------------------------------------------- PQueue
\* A variant of enqueue: at the front.
enqueueFront(q, task) == <<task>> \o q

\* PriorityQueue.enqueue with equal priorities: at the back.
enqueue(q, task) == Append(q, task)

\* PQueue._tryToStartAnother: with a task queued and fewer than
\* `concurrency` pending, the head is dequeued and its function called (it
\* runs up to its await of resource.editorModel.promise).
tryToStartAnother(q, pending, run) ==
    IF q # <<>> /\ pending < Concurrency
    THEN [queue |-> Tail(q), pendingCount |-> pending + 1,
          running |-> run \cup {[task |-> Head(q), pc |-> "await"]}]
    ELSE [queue |-> q, pendingCount |-> pending, running |-> run]

\* PQueue.add(fn)
add(task) ==
    LET r == tryToStartAnother(enqueue(queue, task), pendingCount, running)
    IN  /\ queue' = r.queue
        /\ pendingCount' = r.pendingCount
        /\ running' = r.running
        /\ callCount' = callCount + 1

NoRun == [kind |-> "none", content |-> <<>>, severity |-> Info, eol |-> FALSE,
          max |-> 0, before |-> <<>>, edited |-> <<>>, editedDecorations |-> {},
          editedIds |-> {}, threw |-> FALSE]

\* ---------------------------------------------------------------- actions
\* OutputChannel.append(content, severity)
append(content, severity) ==
    /\ UNCHANGED managerVars
    /\ callCount < MaxCalls
    /\ add([kind |-> "append", content |-> content, severity |-> severity,
            eol |-> FALSE, seq |-> callCount + 1])
    /\ UNCHANGED << textModel, decorationIds, maxLineNumber, editorModel, applied, lastRun >>

\* OutputChannel.appendLine(content, severity)
appendLine(content, severity) ==
    /\ UNCHANGED managerVars
    /\ callCount < MaxCalls
    /\ add([kind |-> "append", content |-> content, severity |-> severity,
            eol |-> TRUE, seq |-> callCount + 1])
    /\ UNCHANGED << textModel, decorationIds, maxLineNumber, editorModel, applied, lastRun >>

\* OutputChannel.clear()
clear ==
    /\ UNCHANGED managerVars
    /\ callCount < MaxCalls
    /\ add([kind |-> "clear", content |-> <<>>, severity |-> Info,
            eol |-> FALSE, seq |-> callCount + 1])
    /\ UNCHANGED << textModel, decorationIds, maxLineNumber, editorModel, applied, lastRun >>

\* The onPreferenceChanged listener of the constructor and the maxLineNumber
\* setter: a new output.maxChannelHistory is stored and append('') queued.
setMaxLineNumber(newValue) ==
    /\ UNCHANGED managerVars
    /\ callCount < MaxCalls
    /\ maxLineNumber # newValue
    /\ maxLineNumber' = newValue
    /\ add([kind |-> "append", content |-> <<>>, severity |-> Info,
            eol |-> FALSE, seq |-> callCount + 1])
    /\ UNCHANGED << textModel, decorationIds, editorModel, applied, lastRun >>

\* textModelService.createModelReference(uri).then(... editorModel.resolve)
resolveEditorModel ==
    /\ UNCHANGED managerVars
    /\ ~editorModel
    /\ editorModel' = TRUE
    /\ UNCHANGED << textModel, decorationIds, maxLineNumber, queue, pendingCount,
                    running, callCount, applied, lastRun >>

\* A variant of settle: a rejected task is not followed by _next.
settleResolvedOnly(threw) == IF threw THEN "rejected" ELSE "settled"

\* The run wrapper of PQueue.add: `try { resolve(await fn()) } catch (error)
\* { reject(error) }`, and _next() after either.
settle(threw) == "settled"

\* A variant of promiseResolved: the await continues at once.
promiseResolvedAlways(deferred) == TRUE

\* `await this.resource.editorModel.promise` continues once the Deferred has
\* been resolved.
promiseResolved(deferred) == deferred

\* The started task resumes after `await this.resource.editorModel.promise`
\* and runs to its end without another await.
runTask(r) ==
    /\ UNCHANGED managerVars
    /\ r.pc = "await"
    /\ promiseResolved(editorModel)
    /\ IF r.task.kind = "clear"
       THEN /\ textModel' = doClear(textModel, decorationIds)
            /\ decorationIds' = {}
            /\ lastRun' = [NoRun EXCEPT !.kind = "clear", !.max = maxLineNumber,
                                        !.before = textModel.value]
       ELSE LET d == doAppend(textModel, decorationIds, maxLineNumber,
                              r.task.content, r.task.severity, r.task.eol)
            IN  /\ textModel' = d.textModel
                /\ decorationIds' = d.decorationIds
                /\ lastRun' = [kind |-> "append", content |-> r.task.content,
                               severity |-> r.task.severity, eol |-> r.task.eol,
                               max |-> maxLineNumber, before |-> textModel.value,
                               edited |-> d.edited.value,
                               editedDecorations |-> d.edited.decorations,
                               editedIds |-> d.editedIds, threw |-> d.threw]
    /\ running' = (running \ {r}) \cup {[r EXCEPT !.pc = settle(lastRun'.threw)]}
    /\ applied' = Append(applied, r.task.seq)
    /\ UNCHANGED << maxLineNumber, editorModel, queue, pendingCount, callCount >>

\* The task's promise has settled (resolved or rejected): PQueue._next()
queueNext(r) ==
    /\ UNCHANGED managerVars
    /\ r.pc = "settled"
    /\ LET n == tryToStartAnother(queue, pendingCount - 1, running \ {r})
       IN  /\ queue' = n.queue
           /\ pendingCount' = n.pendingCount
           /\ running' = n.running
    /\ UNCHANGED << textModel, decorationIds, maxLineNumber, editorModel,
                    callCount, applied, lastRun >>

\* --------------------------------------------------- OutputChannelManager
\* The channel names given to the manager.
Names == {"a", "B", "b"}

\* `undefined`, as the value of _selectedChannel and of Map.get; the objects
\* are numbered from 1.
Undefined == 0
\* `undefined`, as the name carried by onSelectedChannelChanged
UndefinedName == "undefined"

\* OutputUri.create(name) and OutputUri.channelName(uri), of output-uri.ts
OutputUriCreate(name) == [scheme |-> "output", path |-> name]
channelName(uri) == uri.path

\* A JavaScript Map, its entries in insertion order.
mapHas(map, k) == \E i \in 1..Len(map) : map[i].key = k
mapGet(map, k) ==
    IF mapHas(map, k)
    THEN map[CHOOSE i \in 1..Len(map) : map[i].key = k].value
    ELSE Undefined
mapSet(map, k, v) ==
    IF mapHas(map, k)
    THEN [i \in 1..Len(map) |-> IF map[i].key = k THEN [key |-> k, value |-> v] ELSE map[i]]
    ELSE Append(map, [key |-> k, value |-> v])
mapDelete(map, k) ==
    LET keep(e) == e.key # k IN SelectSeq(map, keep)
mapValues(map) == [i \in 1..Len(map) |-> map[i].value]

\* The manager's fields as one record, for the operators below.
Manager ==
    [channels |-> channels, resources |-> resources,
     selectedChannel |-> selectedChannel,
     toDisposeOnChannelDeletion |-> toDisposeOnChannelDeletion,
     objects |-> objects, resourceObjects |-> resourceObjects, fired |-> <<>>]

\* OutputChannel.name
name(m, channel) == channelName(m.objects[channel].uri)

\* Emitter.fire, recorded
fire(m, event, n) == [m EXCEPT !.fired = Append(@, [event |-> event, name |-> n])]

\* OutputChannelManager.getChannels
getChannels(m) == mapValues(m.channels)

\* OutputChannelManager.getVisibleChannels
getVisibleChannels(m) ==
    LET isVisible(channel) == m.objects[channel].visible
    IN  SelectSeq(getChannels(m), isVisible)

\* A variant of first: the last element of the array.
lastOf(array) == IF array = <<>> THEN Undefined ELSE array[Len(array)]

\* array[0]
first(array) == IF array = <<>> THEN Undefined ELSE array[1]

\* set selectedChannel(channel)
setSelectedChannel(m, channel) ==
    fire([m EXCEPT !.selectedChannel = channel], "selectedChannelChanged",
         IF channel = Undefined THEN UndefinedName ELSE name(m, channel))

\* A variant of onVisibilityChange: hiding never moves the selection.
onVisibilityChangeShowOnly(m, outputChannel, visible) ==
    IF visible THEN setSelectedChannel(m, outputChannel) ELSE m

\* A variant of onVisibilityChange: showing selects only when nothing is selected.
onVisibilityChangeKeep(m, outputChannel, visible) ==
    IF visible
    THEN IF m.selectedChannel = Undefined THEN setSelectedChannel(m, outputChannel) ELSE m
    ELSE IF outputChannel = m.selectedChannel
    THEN setSelectedChannel(m, first(getVisibleChannels(m)))
    ELSE m

\* The listener registerListener puts on outputChannel.onVisibilityChange
onVisibilityChange(m, outputChannel, visible) ==
    IF visible
    THEN setSelectedChannel(m, outputChannel)
    ELSE IF outputChannel = m.selectedChannel
    THEN setSelectedChannel(m, first(getVisibleChannels(m)))
    ELSE m

\* OutputChannel.setVisibility: the flag is set and the event fired; the
\* manager's listener hears it while it is registered and the channel's
\* emitter is not disposed.
setVisibility(m, channel, visible) ==
    LET m1 == [m EXCEPT !.objects[channel].visible = visible]
    IN  IF m.objects[channel].listening /\ ~m.objects[channel].disposed
        THEN onVisibilityChange(m1, channel, visible)
        ELSE m1

\* A variant of registerListener: a new channel is never selected.
registerListenerNoSelect(m, outputChannel) ==
    [m EXCEPT
        !.toDisposeOnChannelDeletion[name(m, outputChannel)] =
            @ \o << [kind |-> "channel", channel |-> outputChannel],
                    [kind |-> "listener", channel |-> outputChannel],
                    [kind |-> "resource", channel |-> outputChannel] >>,
        !.objects[outputChannel].listening = TRUE]

\* OutputChannelManager.registerListener.  The DisposableCollection of the
\* name is created when the Map has none; one that was disposed is empty and
\* is used again: both are the empty sequence here.
registerListener(m, outputChannel) ==
    LET m1 == IF m.selectedChannel = Undefined
              THEN setSelectedChannel(m, outputChannel)
              ELSE m
    IN  [m1 EXCEPT
            !.toDisposeOnChannelDeletion[name(m, outputChannel)] =
                @ \o << [kind |-> "channel", channel |-> outputChannel],
                        [kind |-> "listener", channel |-> outputChannel],
                        [kind |-> "resource", channel |-> outputChannel] >>,
            !.objects[outputChannel].listening = TRUE]

\* A variant of existingChannel: a hidden channel is not found.
existingChannelIfVisible(m, n) ==
    LET existing == mapGet(m.channels, n)
    IN  IF existing # Undefined /\ m.objects[existing].visible
        THEN existing ELSE Undefined

\* const existing = this.channels.get(name)
existingChannel(m, n) == mapGet(m.channels, n)

\* OutputChannelManager.getChannel: [m: the manager after, channel: the result]
RECURSIVE getChannelOf(_, _)
getChannelOf(m, n) ==
    LET existing == existingChannel(m, n)
        uri == OutputUriCreate(n)
        m1 == IF mapGet(m.resources, uri) = Undefined
              THEN [m EXCEPT
                      !.resourceObjects = Append(@, [uri |-> uri, disposed |-> FALSE]),
                      !.resources = mapSet(@, uri, Len(m.resourceObjects) + 1)]
              ELSE m
        channel == Len(m1.objects) + 1
        m2 == [m1 EXCEPT
                 !.objects = Append(@, [uri |-> uri,
                                        resource |-> mapGet(m1.resources, uri),
                                        visible |-> TRUE, listening |-> FALSE,
                                        disposed |-> FALSE]),
                 !.channels = mapSet(@, n, channel)]
        m3 == fire(m2, "channelAdded", name(m2, channel))
        \* the onChannelAdded listener of init
        m4 == registerListener(m3, getChannelOf(m3, name(m3, channel)).channel)
    IN  IF existing # Undefined
        THEN [m |-> m, channel |-> existing]
        ELSE [m |-> m4, channel |-> channel]

\* A variant of disposeOne: the resource stays registered.
disposeOneKeepResource(m, d) ==
    CASE d.kind = "resource" -> m
      [] d.kind = "listener" -> [m EXCEPT !.objects[d.channel].listening = FALSE]
      [] d.kind = "channel" -> [m EXCEPT !.objects[d.channel].disposed = TRUE]

\* Disposable.dispose of one element of toDisposeOnChannelDeletion
disposeOne(m, d) ==
    CASE d.kind = "resource" ->
            LET uri == m.objects[d.channel].uri
                resource == mapGet(m.resources, uri)
            IN  IF resource # Undefined
                THEN [m EXCEPT !.resourceObjects[resource].disposed = TRUE,
                               !.resources = mapDelete(@, uri)]
                ELSE m
      [] d.kind = "listener" -> [m EXCEPT !.objects[d.channel].listening = FALSE]
      [] d.kind = "channel" -> [m EXCEPT !.objects[d.channel].disposed = TRUE]

\* DisposableCollection.dispose: from the last element pushed to the first
RECURSIVE disposeCollection(_, _)
disposeCollection(m, n) ==
    LET toDispose == m.toDisposeOnChannelDeletion[n]
    IN  IF toDispose = <<>>
        THEN m
        ELSE disposeCollection(
                disposeOne([m EXCEPT !.toDisposeOnChannelDeletion[n] =
                                        SubSeq(toDispose, 1, Len(toDispose) - 1)],
                           toDispose[Len(toDispose)]),
                n)

\* A variant of onChannelDeleted: the selection is left as it is.
onChannelDeletedKeep(m, n) == m

\* The onChannelDeleted listener of init
onChannelDeleted(m, n) ==
    IF m.selectedChannel # Undefined /\ name(m, m.selectedChannel) = n
    THEN setSelectedChannel(m, first(getVisibleChannels(m)))
    ELSE m

\* A variant of deleteChannelOf: no check that the channel exists.
deleteChannelOfUnchecked(m, n) ==
    onChannelDeleted(
        fire(disposeCollection([m EXCEPT !.channels = mapDelete(@, n)], n),
             "channelDeleted", n),
        n)

\* OutputChannelManager.deleteChannel
deleteChannelOf(m, n) ==
    LET existing == mapGet(m.channels, n)
        m1 == [m EXCEPT !.channels = mapDelete(@, n)]
        m2 == disposeCollection(m1, n)
    IN  IF existing = Undefined
        THEN m
        ELSE onChannelDeleted(fire(m2, "channelDeleted", n), n)

\* OutputUri.is(uri), of output-uri.ts
OutputUriIs(uri) == uri.scheme = "output"

\* OutputChannelManager.resolve: the resource, or the Error thrown
resolve(m, uri) ==
    IF ~OutputUriIs(uri)
    THEN [threw |-> "Expected 'output' URI scheme", resource |-> Undefined]
    ELSE IF mapGet(m.resources, uri) = Undefined
    THEN [threw |-> "No output resource was registered", resource |-> Undefined]
    ELSE [threw |-> "", resource |-> mapGet(m.resources, uri)]

\* ------------------------------------------------------------------ pick
\* String.toLocaleLowerCase, on the names
toLocaleLowerCase(string) == IF string = "B" THEN "b" ELSE string

\* The collation order of the lowercased names
Collation == << "a", "b" >>

\* String.localeCompare, on the lowercased names: negative, zero or positive
localeCompare(string, that) ==
    LET rank(x) == CHOOSE i \in 1..Len(Collation) : Collation[i] = x
    IN  rank(string) - rank(that)

\* A variant of compare: by name only.
compareNameOnly(m, left, right) ==
    localeCompare(toLocaleLowerCase(name(m, left)), toLocaleLowerCase(name(m, right)))

\* The compare function pick sorts with: visible channels first, then by
\* lowercased name.
compare(m, left, right) ==
    IF m.objects[left].visible # m.objects[right].visible
    THEN IF m.objects[left].visible THEN -1 ELSE 1
    ELSE localeCompare(toLocaleLowerCase(name(m, left)),
                       toLocaleLowerCase(name(m, right)))

\* Array.prototype.sort with pick's compare function: the results an
\* implementation may give, which are the orders of the array's elements
\* that the compare function agrees with (one, unless two elements compare
\* equal).
sort(m, array) ==
    LET n == Len(array)
        elements == { array[i] : i \in 1..n }
    IN  { sorted \in [1..n -> elements] :
            /\ \A i, j \in 1..n : i # j => sorted[i] # sorted[j]
            /\ \A i, j \in 1..n : i < j => compare(m, sorted[i], sorted[j]) <= 0 }

\* The loop of pick: the items of channels[i..], each a channel's item,
\* after a separator for the first channel and for a hidden channel that
\* follows a visible one.
RECURSIVE pickItems(_, _, _)
pickItems(m, sortedChannels, i) ==
    IF i > Len(sortedChannels)
    THEN <<>>
    ELSE LET channel == sortedChannels[i]
             prevHasDifferentVisibility ==
                 /\ i > 1
                 /\ ~m.objects[channel].visible
                 /\ m.objects[sortedChannels[i - 1]].visible
             separator == IF i = 1 \/ prevHasDifferentVisibility
                          THEN << [type |-> "separator", label |-> "blabla",
                                   value |-> Undefined] >>
                          ELSE <<>>
         IN  separator
             \o << [type |-> "item", label |-> name(m, channel), value |-> channel] >>
             \o pickItems(m, sortedChannels, i + 1)

\* The state of the manager after init().
InitManager ==
    /\ channels = <<>>
    /\ resources = <<>>
    /\ selectedChannel = Undefined
    /\ toDisposeOnChannelDeletion = [n \in Names |-> <<>>]
    /\ objects = <<>>
    /\ resourceObjects = <<>>
    /\ fired = <<>>
    /\ lastOp = [op |-> "init", name |-> UndefinedName, channel |-> Undefined,
                 existing |-> Undefined, selectedBefore |-> Undefined,
                 objectsBefore |-> 0, before |-> Manager, given |-> <<>>,
                 items |-> <<>>]

InitChannel ==
    /\ textModel = [value |-> <<>>, decorations |-> {}, lastDecorationId |-> 0]
    /\ decorationIds = {}
    /\ maxLineNumber \in 1..MaxHistory
    /\ editorModel = FALSE
    /\ queue = <<>>
    /\ pendingCount = 0
    /\ running = {}
    /\ callCount = 0
    /\ applied = <<>>
    /\ lastRun = NoRun

Next ==
    \/ \E content \in Contents, severity \in Severities : append(content, severity)
    \/ \E content \in Contents, severity \in Severities : appendLine(content, severity)
    \/ clear
    \/ \E newValue \in 1..MaxHistory : setMaxLineNumber(newValue)
    \/ resolveEditorModel
    \/ \E r \in running : runTask(r)
    \/ \E r \in running : queueNext(r)

Init == InitChannel /\ InitManager

Spec == Init /\ [][Next]_vars

\* The states in which runTask can be taken: its two guards (every other
\* conjunct of runTask assigns, and applied always grows).
runTaskEnabled == promiseResolved(editorModel) /\ \E r \in running : r.pc = "await"

\* The channel with its text model eventually resolved and the event loop
\* running every continuation that is ready: weak fairness of
\* resolveEditorModel, queueNext and runTask.  The last is written out as
\* []<>~ENABLED \/ []<><<A>>_vars over runTaskEnabled.
FairSpec ==
    /\ Init
    /\ [][Next]_vars
    /\ WF_vars(resolveEditorModel)
    /\ WF_vars(\E r \in running : queueNext(r))
    /\ ([]<>(~runTaskEnabled) \/ []<><<\E r \in running : runTask(r)>>_vars)

\* ------------------------------------------------------- manager, actions
\* The manager's fields take the values of record m; op is recorded.
becomes(m, op, n, channel) ==
    /\ channels' = m.channels
    /\ resources' = m.resources
    /\ selectedChannel' = m.selectedChannel
    /\ toDisposeOnChannelDeletion' = m.toDisposeOnChannelDeletion
    /\ objects' = m.objects
    /\ resourceObjects' = m.resourceObjects
    /\ fired' = m.fired
    /\ lastOp' = [op |-> op, name |-> n, channel |-> channel,
                  existing |-> mapGet(channels, n),
                  selectedBefore |-> selectedChannel,
                  objectsBefore |-> Len(objects), before |-> Manager,
                  given |-> <<>>, items |-> <<>>]
    /\ UNCHANGED channelVars

\* A channel may be created: the name is registered or the bound allows one more.
mayGet(n) == mapHas(channels, n) \/ Len(objects) < MaxChannels

registered == { channels[i].value : i \in 1..Len(channels) }

\* OutputChannelManager.getChannel(name)
getChannel(n) ==
    /\ mayGet(n)
    /\ LET r == getChannelOf(Manager, n)
       IN  becomes(r.m, "getChannel", n, r.channel)

\* OutputChannelManager.deleteChannel(name), the DISPOSE command
deleteChannel(n) ==
    becomes(deleteChannelOf(Manager, n), "deleteChannel", n, mapGet(channels, n))

\* OutputChannel.show() on a registered channel
show(channel) ==
    /\ channel \in registered
    /\ becomes(setVisibility(Manager, channel, TRUE), "show",
               name(Manager, channel), channel)

\* OutputChannel.hide() on a registered channel
hide(channel) ==
    /\ channel \in registered
    /\ becomes(setVisibility(Manager, channel, FALSE), "hide",
               name(Manager, channel), channel)

\* The SHOW command: this.getChannel(name).show()
showCommand(n) ==
    /\ mayGet(n)
    /\ LET r == getChannelOf(Manager, n)
       IN  becomes(setVisibility(r.m, r.channel, TRUE), "showCommand", n, r.channel)

\* The HIDE command: this.getChannel(name).hide()
hideCommand(n) ==
    /\ mayGet(n)
    /\ LET r == getChannelOf(Manager, n)
       IN  becomes(setVisibility(r.m, r.channel, FALSE), "hideCommand", n, r.channel)

\* OutputChannelManager.pick({ channels }), up to quickPickService.show: the
\* items shown.  The array sorted is the caller's copy, so the manager is as
\* it was.
pick(given) ==
    \E sortedChannels \in sort(Manager, given) :
        /\ lastOp' = [op |-> "pick", name |-> UndefinedName, channel |-> Undefined,
                      existing |-> Undefined, selectedBefore |-> selectedChannel,
                      objectsBefore |-> Len(objects), before |-> Manager,
                      given |-> given,
                      items |-> pickItems(Manager, sortedChannels, 1)]
        /\ fired' = <<>>
        /\ UNCHANGED << channels, resources, selectedChannel,
                        toDisposeOnChannelDeletion, objects, resourceObjects >>
        /\ UNCHANGED channelVars

\* The CLEAR, SHOW and DISPOSE quick-pick commands, enabled with a channel
\* registered, up to the await of pick
pickOfChannels ==
    /\ getChannels(Manager) # <<>>
    /\ pick(getChannels(Manager))

\* The HIDE quick-pick command, enabled with a channel visible, up to the
\* await of pick
pickOfVisibleChannels ==
    /\ getVisibleChannels(Manager) # <<>>
    /\ pick(getVisibleChannels(Manager))

InitManagerSpec ==
    /\ InitManager
    /\ InitChannel
    /\ maxLineNumber = 1

NextManager ==
    \/ \E n \in Names : getChannel(n)
    \/ \E n \in Names : deleteChannel(n)
    \/ \E channel \in registered : show(channel)
    \/ \E channel \in registered : hide(channel)
    \/ \E n \in Names : showCommand(n)
    \/ \E n \in Names : hideCommand(n)
    \/ pickOfChannels
    \/ pickOfVisibleChannels

SpecManager == InitManagerSpec /\ [][NextManager]_vars

\* ------------------------------------------------------- claims, channel
\* What the last run of doAppend inserted.
InsertedText == IF lastRun.eol THEN lastRun.content \o <<LF>> ELSE lastRun.content

\* The last run of doAppend trimmed: the lines it had to remove (0: none).
Trimmed ==
    IF lastRun.kind = "append" /\ ~lastRun.threw
    THEN Max({0, linesToRemove(lastRun.edited, lastRun.max)})
    ELSE 0

\* Number of characters of the lines the last run had to remove.
TrimmedLength == LineStart(lastRun.edited, Trimmed + 1)

\* C1: the k-th edit applied to the document is the edit of the k-th call of
\* append / appendLine / clear: edits are applied in call order.
C1_FifoOrder == \A i \in 1..Len(applied) : applied[i] = i

\* Three calls have been applied (two of them waited in the queue).
C1_Witness == Len(applied) >= 3

\* C2: at most one queued task is in progress (started and not yet
\* settled) at any time.
C2_SingleWriter ==
    /\ Cardinality({ r \in running : r.pc = "await" }) <= 1
    /\ Cardinality(running) <= 1

\* A task is in progress, awaiting the text model, while another waits.
C2_Witness == queue # <<>> /\ \E r \in running : r.pc = "await"

\* C3: after a run of doAppend the document has at most maxLineNumber + 1
\* lines.
C3_BoundedScrollback ==
    lastRun.kind = "append" => getLineCount(textModel.value) <= lastRun.max + 1

\* A run of doAppend had to remove more than one line.
C3_Witness == Trimmed >= 2

\* C4: when doAppend trims, the document afterwards is the document before
\* the trimming without its first linesToRemove lines, character for
\* character.
C4_TrimRemovesWholeLines ==
    Trimmed > 0 =>
        textModel.value =
            SubSeq(lastRun.edited, TrimmedLength + 1, Len(lastRun.edited))

\* C5: when doAppend trims, every decoration of the channel that covers
\* some character of the retained lines still exists afterwards.
C5_TrimKeepsDecorations ==
    Trimmed > 0 =>
        \A d \in lastRun.editedDecorations :
            (d.id \in lastRun.editedIds /\ d.e > TrimmedLength /\ d.e > d.s)
                => \E k \in textModel.decorations : k.id = d.id

\* C6: the insertion of doAppend yields the document before it followed by
\* the content (and the end of line, for appendLine).
C6_AppendOnly ==
    lastRun.kind = "append" => lastRun.edited = lastRun.before \o InsertedText

\* doAppend inserted a text after a document that did not end a line.
C6_Witness ==
    /\ lastRun.kind = "append"
    /\ InsertedText # <<>>
    /\ lastRun.before # <<>>
    /\ lastRun.before[Len(lastRun.before)] # LF

\* ------------------------------------------------------- claims, manager
\* The events of one kind that the last operation fired.
Fired(event) == SelectSeq(fired, LAMBDA e : e.event = event)

\* The last operation was a getChannel that created a channel.
Created == lastOp.op = "getChannel" /\ Len(objects) > lastOp.objectsBefore

\* C7: getChannel(name) creates a channel only when none is registered under
\* the name and otherwise returns the registered one; the registry holds no
\* two channels of one name; onChannelAdded fires once per creation and not
\* otherwise.
C7_RegistryUnique ==
    /\ \A i, j \in 1..Len(channels) :
          (\/ channels[i].key = channels[j].key
           \/ name(Manager, channels[i].value) = name(Manager, channels[j].value))
             => i = j
    /\ lastOp.op = "getChannel" =>
          /\ mapGet(channels, lastOp.name) = lastOp.channel
          /\ lastOp.existing # Undefined =>
                /\ lastOp.channel = lastOp.existing
                /\ Len(objects) = lastOp.objectsBefore
                /\ Fired("channelAdded") = <<>>
          /\ lastOp.existing = Undefined =>
                /\ lastOp.channel = Len(objects)
                /\ Len(objects) = lastOp.objectsBefore + 1
                /\ Fired("channelAdded") = << [event |-> "channelAdded", name |-> lastOp.name] >>

\* getChannel was called for a registered name, with the channel hidden and
\* other channels registered.
C7_Witness ==
    /\ lastOp.op = "getChannel"
    /\ lastOp.existing # Undefined
    /\ ~objects[lastOp.existing].visible
    /\ Len(channels) >= 2

\* C8: selectedChannel is undefined or a channel that is registered and
\* visible.
C8_SelectionValid ==
    selectedChannel # Undefined =>
        /\ selectedChannel \in registered
        /\ objects[selectedChannel].visible

\* The selected channel was hidden or deleted and the selection moved on to
\* another channel.
C8_Witness ==
    /\ lastOp.op \in {"hide", "hideCommand", "deleteChannel"}
    /\ lastOp.selectedBefore = lastOp.channel
    /\ lastOp.channel # Undefined
    /\ selectedChannel # Undefined

\* C9: with a registered channel visible, selectedChannel is defined.
C9_SelectionDefined ==
    getVisibleChannels(Manager) # <<>> => selectedChannel # Undefined

\* Nothing was selected although channels were registered (all hidden); a
\* channel was created and is selected.
C9_Witness ==
    /\ Created
    /\ lastOp.selectedBefore = Undefined
    /\ Len(channels) >= 2
    /\ selectedChannel = lastOp.channel

\* C10: show() makes the channel visible and selected and the last event is
\* onSelectedChannelChanged with its name; a new channel is visible, and is
\* selected only if none was selected before.
C10_ShowSelects ==
    /\ lastOp.op \in {"show", "showCommand"} =>
          /\ objects[lastOp.channel].visible
          /\ selectedChannel = lastOp.channel
          /\ fired # <<>>
          /\ fired[Len(fired)] = [event |-> "selectedChannelChanged", name |-> lastOp.name]
    /\ Created =>
          /\ objects[lastOp.channel].visible
          /\ selectedChannel = lastOp.channel => lastOp.selectedBefore = Undefined

\* show() was called on a registered channel while another was selected.
C10_Witness ==
    /\ lastOp.op = "show"
    /\ lastOp.selectedBefore \notin {Undefined, lastOp.channel}
    /\ selectedChannel = lastOp.channel

\* The registered channels that are visible, and the one that was
\* registered first among them (channel objects are numbered as created,
\* and a name is registered with a new object, at the end of the registry).
VisibleRegistered == { c \in registered : objects[c].visible }
FirstVisibleRegistered ==
    IF VisibleRegistered = {} THEN Undefined ELSE Min(VisibleRegistered)

\* The last operation left the registry, the resources and the disposables
\* as they were.
RegistryUnchanged ==
    /\ channels = lastOp.before.channels
    /\ resources = lastOp.before.resources
    /\ resourceObjects = lastOp.before.resourceObjects
    /\ toDisposeOnChannelDeletion = lastOp.before.toDisposeOnChannelDeletion

\* C11: hide() on a registered channel clears its visible flag and changes
\* nothing else of the channels; on the selected channel it moves the
\* selection to the visible channel registered first, or to undefined when
\* none is visible; on another channel it leaves the selection as it was and
\* fires nothing.
C11_HideMovesSelection ==
    lastOp.op = "hide" =>
        /\ objects = [lastOp.before.objects EXCEPT ![lastOp.channel].visible = FALSE]
        /\ RegistryUnchanged
        /\ lastOp.selectedBefore = lastOp.channel =>
              /\ selectedChannel = FirstVisibleRegistered
              /\ fired = << [event |-> "selectedChannelChanged",
                             name |-> IF selectedChannel = Undefined THEN UndefinedName
                                      ELSE name(Manager, selectedChannel)] >>
        /\ lastOp.selectedBefore # lastOp.channel =>
              /\ selectedChannel = lastOp.selectedBefore
              /\ fired = <<>>

\* hide() on the selected channel, with two other channels visible.
C11_Witness ==
    /\ lastOp.op = "hide"
    /\ lastOp.selectedBefore = lastOp.channel
    /\ Cardinality(VisibleRegistered) >= 2

\* C12: deleteChannel(name) of a registered channel removes it from the
\* registry (the other entries keep their order), disposes its resource and
\* removes that from the resources, and fires onChannelDeleted once with the
\* name; the selection moves to the visible channel registered first (or
\* undefined) when the deleted channel was selected and is unchanged
\* otherwise.
C12_DeleteRegistered ==
    (lastOp.op = "deleteChannel" /\ lastOp.existing # Undefined) =>
        /\ channels = mapDelete(lastOp.before.channels, lastOp.name)
        /\ lastOp.channel \notin registered
        /\ ~mapHas(resources, objects[lastOp.channel].uri)
        /\ resourceObjects[objects[lastOp.channel].resource].disposed
        /\ objects[lastOp.channel].disposed
        /\ Fired("channelDeleted") = << [event |-> "channelDeleted", name |-> lastOp.name] >>
        /\ lastOp.selectedBefore = lastOp.channel =>
              selectedChannel = FirstVisibleRegistered
        /\ lastOp.selectedBefore # lastOp.channel =>
              /\ selectedChannel = lastOp.selectedBefore
              /\ Fired("selectedChannelChanged") = <<>>

\* The selected channel was deleted with two other channels registered, the
\* one registered first of them hidden.
C12_Witness ==
    /\ lastOp.op = "deleteChannel"
    /\ lastOp.existing # Undefined
    /\ lastOp.selectedBefore = lastOp.channel
    /\ Len(channels) >= 2
    /\ ~objects[channels[1].value].visible
    /\ selectedChannel # Undefined

\* The URIs resolve is asked for: the output URI of every name, and a URI of
\* another scheme.
Uris == { OutputUriCreate(n) : n \in Names } \cup { [scheme |-> "file", path |-> n] : n \in Names }

\* C13: the registered resource URIs are the URIs of the registered
\* channels; resolve(uri) returns the resource of the channel registered for
\* the URI, and throws when none is registered for it or the URI is not of
\* the output scheme.
C13_ResourcesMatchChannels ==
    /\ { resources[i].key : i \in 1..Len(resources) }
         = { objects[c].uri : c \in registered }
    /\ \A uri \in Uris :
          LET r == resolve(Manager, uri)
              of == { c \in registered : objects[c].uri = uri }
          IN  /\ (r.threw = "") <=> (of # {})
              /\ \A c \in of : r.resource = objects[c].resource
                                /\ ~resourceObjects[r.resource].disposed
              /\ ~OutputUriIs(uri) => r.threw = "Expected 'output' URI scheme"

\* A channel was deleted and its name registered again, with another channel
\* registered: the resource registered for the name is a new one.
C13_Witness ==
    /\ Len(resourceObjects) > Len(resources)
    /\ Len(channels) >= 2
    /\ \E i \in 1..Len(resourceObjects) :
          /\ resourceObjects[i].disposed
          /\ mapHas(resources, resourceObjects[i].uri)

\* C14: deleteChannel(name) with no channel registered under the name
\* changes nothing of the manager and fires no event.
C14_DeleteUnknown ==
    (lastOp.op = "deleteChannel" /\ lastOp.existing = Undefined) =>
        /\ RegistryUnchanged
        /\ objects = lastOp.before.objects
        /\ selectedChannel = lastOp.selectedBefore
        /\ fired = <<>>

\* deleteChannel was called with a name that is not registered while a
\* channel was selected.
C14_Witness ==
    /\ lastOp.op = "deleteChannel"
    /\ lastOp.existing = Undefined
    /\ selectedChannel # Undefined
    /\ Len(channels) >= 2

\* The sequence numbers of a sequence of tasks.
Seqs(tasks) == [i \in 1..Len(tasks) |-> tasks[i].seq]

\* The started tasks that have not reached the document yet, in call order
\* (at most one, the queue having concurrency 1).
Awaiting ==
    LET waiting == { r \in running : r.pc = "await" }
    IN  IF waiting = {} THEN <<>> ELSE << (CHOOSE r \in waiting : TRUE).task >>

\* C15: before resource.editorModel is resolved no call has reached the
\* document, which is as constructed, and every call made is held; in every
\* state the calls applied, followed by the started one still waiting and
\* the queued ones, are the calls made, in call order, each exactly once.
C15_DeferredStart ==
    /\ ~editorModel =>
          /\ applied = <<>>
          /\ textModel = [value |-> <<>>, decorations |-> {}, lastDecorationId |-> 0]
          /\ decorationIds = {}
          /\ Len(Awaiting) + Len(queue) = callCount
    /\ applied \o Seqs(Awaiting) \o Seqs(queue) = [i \in 1..callCount |-> i]

\* Three calls were made before the model was resolved: the first has been
\* started and waits for the model, the other two are queued.
C15_Witness ==
    /\ ~editorModel
    /\ callCount = 3
    /\ Seqs(Awaiting) = << 1 >>
    /\ Seqs(queue) = << 2, 3 >>

\* C16: with the text model eventually resolved, every call made is
\* eventually executed against the document, whatever its content and
\* severity and those of the calls before it.
C16_QueueDrains ==
    \A i \in 1..MaxCalls :
        (callCount >= i) ~> (\E k \in 1..Len(applied) : applied[k] = i)

\* The last task executed threw after its edit, and the call made after it
\* has been started.
C16_Witness ==
    /\ lastRun.threw
    /\ Len(applied) >= 1
    /\ \E r \in running : r.pc = "await" /\ r.task.seq = Len(applied) + 1

\* The channels of the items that are not separators, in the items' order.
ItemChannels(items) ==
    LET channelItems == SelectSeq(items, LAMBDA item : item.type = "item")
    IN  [i \in 1..Len(channelItems) |-> channelItems[i].value]

\* The name of a channel without its case, as a position in the alphabet.
NameRank(channel) ==
    LET n == name(Manager, channel)
    IN  IF n = "a" THEN 1 ELSE 2

\* C17: the items built by pick hold every given channel exactly once under
\* its name, the visible channels before the hidden ones and each group by
\* name without regard to case; a separator is the first item, another
\* stands between the last visible and the first hidden channel, and there
\* is no other.
C17_PickOrdering ==
    lastOp.op = "pick" =>
        LET items == lastOp.items
            given == lastOp.given
            shown == ItemChannels(items)
            visible(c) == objects[c].visible
            isItem(k) == items[k].type = "item"
        IN  /\ Len(shown) = Len(given)
            /\ { shown[i] : i \in 1..Len(shown) } = { given[i] : i \in 1..Len(given) }
            /\ \A k \in 1..Len(items) :
                  isItem(k) => items[k].label = name(Manager, items[k].value)
            /\ \A i, j \in 1..Len(shown) : i < j =>
                  /\ visible(shown[j]) => visible(shown[i])
                  /\ visible(shown[i]) = visible(shown[j]) =>
                        NameRank(shown[i]) <= NameRank(shown[j])
            /\ items # <<>> => ~isItem(1)
            /\ \A k \in 1..Len(items) :
                  ~isItem(k) =>
                      /\ k < Len(items)
                      /\ isItem(k + 1)
                      /\ k > 1 => /\ isItem(k - 1)
                                  /\ visible(items[k - 1].value)
                                  /\ ~visible(items[k + 1].value)
            /\ \A k \in 1..(Len(items) - 1) :
                  (isItem(k) /\ isItem(k + 1)) =>
                      ~(visible(items[k].value) /\ ~visible(items[k + 1].value))

\* pick was given three channels in another order than it shows them: "a"
\* hidden and registered first, then "B" and "b", one of them visible.
C17_Witness ==
    /\ lastOp.op = "pick"
    /\ Len(lastOp.given) = 3
    /\ name(Manager, lastOp.given[1]) = "a"
    /\ ~objects[lastOp.given[1]].visible
    /\ \E i, j \in 2..3 : objects[lastOp.given[i]].visible /\ ~objects[lastOp.given[j]].visible
    /\ ItemChannels(lastOp.items) # lastOp.given

====
